---- MODULE Spec2Model ----
(***************************************************************************)
(* A model of the s-expression language runtime of nrc/s: the tree builder *)
(* (parser.rs), the unhygienic macro expander (expand.rs) and the          *)
(* tree-walking evaluator with its rib environment (interpreter.rs).       *)
(***************************************************************************)
EXTENDS Integers, Sequences, FiniteSets, TLC

VARIABLES
    \* interpreter.rs: Envr and the run_node call stack
    ribs,        \* Envr.ribs: the sequence of ribs, innermost last
    guards,      \* number of live RibGuard values (scopes nest, so a count)
    hist,        \* the Envr operations performed so far, with their outcomes
    estatus,     \* "ok" | "panic" (unwinding) | "dead" : state of the Envr client
    \* parser.rs: parse
    input,       \* the token slice given to parse
    i,           \* parse's cursor
    cur_node,    \* parse's current node
    expr_stack,  \* parse's stack of nodes under construction
    pstatus,     \* "idle" | "loop" | "ok" | "panic"
    \* lexer.rs: lex; main.rs: print
    text,        \* the characters given to lex
    pos,         \* the Lexer's cursor: the next character of text
    lexed,       \* lex's result vector
    ast,         \* the tree that was printed
    phase,       \* "idle" | "first" | "second": which text is being read
    \* interpreter.rs: run_node
    prog,        \* the node handed to the outermost run_node
    stack,       \* the run_node activations, outermost first
    ret,         \* the value the last finished run_node returned
    mode,        \* "idle" | "call" | "step" | "ret" | "unwind" | "done" | "failed"
                 \* | "overflow" | "next" | "returned"
    out,         \* the values written by println!, in order
    \* interpreter.rs: run_program
    program,     \* the node handed to run_program
    result,      \* run_program's result vector
    \* expand.rs: fold with the Unhygienic folder
    tree,        \* the Program handed to fold
    folder,      \* the folder handed to fold: "Unhygienic" | "Noop" ("idle": none)
    folded,      \* the top-level entries folded so far
    macros,      \* Unhygienic.macros
    xstatus      \* "idle" | "fold" | "ok" | "panic"

envVars == <<ribs, guards, hist, estatus>>
parseVars == <<input, i, cur_node, expr_stack, pstatus>>
lexVars == <<text, pos, lexed, ast, phase>>
evalVars == <<prog, stack, ret, mode, out, program, result>>
expandVars == <<tree, folder, folded, macros, xstatus>>
vars == <<ribs, guards, hist, estatus, input, i, cur_node, expr_stack, pstatus,
          text, pos, lexed, ast, phase,
          prog, stack, ret, mode, out, program, result,
          tree, folder, folded, macros, xstatus>>
notEnv == <<parseVars, lexVars, evalVars, expandVars>>
notParse == <<envVars, lexVars, evalVars, expandVars>>
notEval == <<guards, hist, estatus, parseVars, lexVars, expandVars, program, result>>
notExpand == <<envVars, parseVars, lexVars, evalVars>>

----------------------------------------------------------------------------
(* parser.rs: the Node type and its builder macros *)

Program(ns) == [tag |-> "Program", ns |-> ns]
S(ns) == [tag |-> "S", ns |-> ns]
Plus == [tag |-> "Plus"]
Fn == [tag |-> "Fn"]
Let == [tag |-> "Let"]
PrintKw == [tag |-> "Print"]
Macro == [tag |-> "Macro"]
Ident(s) == [tag |-> "Ident", s |-> s]
LitNum(n) == [tag |-> "LitNum", n |-> n]
LitStr(s) == [tag |-> "LitStr", s |-> s]

\* Option<Node>::None
None == [tag |-> "None"]

----------------------------------------------------------------------------
(* interpreter.rs: Envr.  A rib is a HashMap<Str, Node>: a set of entries  *)
(* [k, v] with pairwise distinct keys.                                     *)

MaxOps == 5

Names == {"x", "y"}
EnvValues == {LitNum(0), LitNum(42)}

contains_key(rib, name) == \E e \in rib : e.k = name
get(rib, name) == (CHOOSE e \in rib : e.k = name).v

Envr_kept == <<{[k |-> "x", v |-> LitNum(1)]}>>
Envr_new == <<>>
Envr_with_value(name, value) == <<{[k |-> name, v |-> value]}>>

push_rib(rs) == Append(rs, {})

\* RibGuard::drop: ribs.pop(); the assert fails when there is nothing to pop
RibGuard_drop(rs) == SubSeq(rs, 1, Len(rs) - 1)

\* Envr::store: the two asserts
store_any_rib(rs, name) == Len(rs) = 0 \/ \E j \in 1..Len(rs) : contains_key(rs[j], name)
store_panics(rs, name) == Len(rs) = 0 \/ contains_key(rs[Len(rs)], name)

\* Envr::store: the insert into ribs[len - 1]
store_outermost(rs, name, value) == [rs EXCEPT ![1] = @ \cup {[k |-> name, v |-> value]}]
store(rs, name, value) == [rs EXCEPT ![Len(rs)] = @ \cup {[k |-> name, v |-> value]}]

\* Envr::lookup: for rib in ribs.iter().rev()
RECURSIVE lookup_rev(_, _, _)
lookup_rev(rs, name, j) ==
    IF j = 0 THEN None
    ELSE IF contains_key(rs[j], name) THEN get(rs[j], name)
    ELSE lookup_rev(rs, name, j - 1)

RECURSIVE lookup_fwd(_, _, _)
lookup_fwd(rs, name, j) ==
    IF j > Len(rs) THEN None
    ELSE IF contains_key(rs[j], name) THEN get(rs[j], name)
    ELSE lookup_fwd(rs, name, j + 1)

lookup_outermost_first(rs, name) == lookup_fwd(rs, name, 1)
lookup(rs, name) == lookup_rev(rs, name, Len(rs))

----------------------------------------------------------------------------
(* The Envr object driven through its operations, as interpreter.rs's      *)
(* run_node and unit tests drive it.                                       *)

ParseIdle ==
    /\ input = <<>> /\ i = 0 /\ cur_node = None /\ expr_stack = <<>> /\ pstatus = "idle"
    /\ text = <<>> /\ pos = 1 /\ lexed = <<>> /\ ast = None /\ phase = "idle"

EnvIdle ==
    /\ ribs = <<>> /\ guards = 0 /\ hist = <<>> /\ estatus = "idle"

EvalIdle ==
    /\ prog = None /\ stack = <<>> /\ ret = None /\ mode = "idle" /\ out = <<>>
    /\ program = None /\ result = <<>>

ExpandIdle ==
    /\ tree = None /\ folder = "idle" /\ folded = <<>> /\ macros = {} /\ xstatus = "idle"

EnvInit ==
    /\ ribs \in {Envr_new} \cup {Envr_with_value("x", v) : v \in EnvValues}
    /\ guards = 0
    /\ hist = <<>>
    /\ estatus = "ok"
    /\ ParseIdle
    /\ EvalIdle
    /\ ExpandIdle

EnvPushRib ==
    /\ estatus = "ok" /\ Len(hist) < MaxOps
    /\ ribs' = push_rib(ribs)
    /\ guards' = guards + 1
    /\ hist' = Append(hist, [op |-> "push_rib", name |-> "", arg |-> None, res |-> None,
                             before |-> ribs])
    /\ UNCHANGED <<estatus, notEnv>>

\* a guard going out of scope; guards are locals, so the innermost goes first
EnvDropGuard ==
    /\ estatus = "ok" /\ Len(hist) < MaxOps
    /\ guards > 0
    /\ ribs' = RibGuard_drop(ribs)
    /\ guards' = guards - 1
    /\ hist' = Append(hist, [op |-> "drop", name |-> "", arg |-> None, res |-> None,
                             before |-> ribs])
    /\ UNCHANGED <<estatus, notEnv>>

EnvStore ==
    /\ estatus = "ok" /\ Len(hist) < MaxOps
    /\ \E name \in Names, value \in EnvValues :
        IF store_panics(ribs, name)
        THEN /\ estatus' = "panic"
             /\ hist' = Append(hist, [op |-> "store_panic", name |-> name, arg |-> value,
                                      res |-> None, before |-> ribs])
             /\ UNCHANGED <<ribs, guards>>
        ELSE /\ ribs' = store(ribs, name, value)
             /\ hist' = Append(hist, [op |-> "store", name |-> name, arg |-> value,
                                      res |-> None, before |-> ribs])
             /\ UNCHANGED <<estatus, guards>>
    /\ UNCHANGED notEnv

EnvLookup ==
    /\ estatus = "ok" /\ Len(hist) < MaxOps
    /\ \E name \in Names :
        hist' = Append(hist, [op |-> "lookup", name |-> name, arg |-> None,
                              res |-> lookup(ribs, name), before |-> ribs])
    /\ UNCHANGED <<ribs, guards, estatus, notEnv>>

\* a panic unwinds the client: every live guard is dropped, innermost first
EnvUnwind ==
    /\ estatus = "panic"
    /\ IF guards > 0
       THEN /\ ribs' = RibGuard_drop(ribs)
            /\ guards' = guards - 1
            /\ UNCHANGED estatus
       ELSE /\ estatus' = "dead"
            /\ UNCHANGED <<ribs, guards>>
    /\ UNCHANGED <<hist, notEnv>>

EnvNext == EnvPushRib \/ EnvDropGuard \/ EnvStore \/ EnvLookup \/ EnvUnwind

SpecEnvr == EnvInit /\ [][EnvNext]_vars

----------------------------------------------------------------------------
(* Envr::lookup (claim C2) and Envr::store (claim C3), read off the        *)
(* recorded operations.                                                    *)

\* the Envr after operation k: the next operation's "before", or the present
RibsAfter(k) == IF k < Len(hist) THEN hist[k + 1].before ELSE ribs

RibsHolding(rs, name) == {j \in 1..Len(rs) : contains_key(rs[j], name)}

MaxOf(set) == CHOOSE m \in set : \A n \in set : n <= m

\* C2: every lookup returned the value bound in the innermost rib that holds
\* the name, and None when no rib holds it; so a name bound in an outer rib
\* and again in an inner rib reads as the inner value, and as the outer value
\* once the inner rib's guard is dropped.
C2_LookupInnermost ==
    \A k \in 1..Len(hist) :
        hist[k].op = "lookup" =>
            LET rs == hist[k].before
                holding == RibsHolding(rs, hist[k].name)
            IN  IF holding = {} THEN hist[k].res = None
                ELSE [k |-> hist[k].name, v |-> hist[k].res] \in rs[MaxOf(holding)]

\* the shadowing scenario of test_envr_push_pop: inner value, drop, outer value
C2_Witness ==
    \E k \in 1..Len(hist) :
        /\ k + 2 <= Len(hist)
        /\ hist[k].op = "lookup" /\ hist[k].name = "x"
        /\ Cardinality(RibsHolding(hist[k].before, "x")) = 2
        /\ hist[k + 1].op = "drop"
        /\ hist[k + 2].op = "lookup" /\ hist[k + 2].name = "x"
        /\ hist[k + 2].res # None
        /\ hist[k].res # hist[k + 2].res

\* C3 as stated: store fails exactly when the name is already in the
\* innermost rib.
C3_StoreFailsIffInInnermost ==
    \A k \in 1..Len(hist) :
        hist[k].op \in {"store", "store_panic"} =>
            LET rs == hist[k].before
            IN  (hist[k].op = "store_panic") <=>
                    (Len(rs) > 0 /\ contains_key(rs[Len(rs)], hist[k].name))

\* C3 amended: store fails exactly when the environment has no rib or the
\* name is already in the innermost rib; a name held only by outer ribs is
\* stored, and a successful store adds the binding to the innermost rib and
\* leaves every outer rib as it was.
C3_StoreAmended ==
    \A k \in 1..Len(hist) :
        hist[k].op \in {"store", "store_panic"} =>
            LET rs == hist[k].before
                after == RibsAfter(k)
            IN  /\ (hist[k].op = "store_panic") <=>
                        (Len(rs) = 0 \/ contains_key(rs[Len(rs)], hist[k].name))
                /\ hist[k].op = "store" =>
                        /\ Len(after) = Len(rs)
                        /\ \A j \in 1..(Len(rs) - 1) : after[j] = rs[j]
                        /\ after[Len(rs)] =
                               rs[Len(rs)] \cup {[k |-> hist[k].name, v |-> hist[k].arg]}
                        /\ lookup(after, hist[k].name) = hist[k].arg

\* a successful store of a name that an outer rib already holds
C3_Witness ==
    \E k \in 1..Len(hist) :
        /\ hist[k].op = "store"
        /\ Len(hist[k].before) >= 2
        /\ contains_key(hist[k].before[1], hist[k].name)

----------------------------------------------------------------------------
(* lexer.rs: Token; main.rs: KEYWORDS *)

KEYWORDS == {"+", "fn", "let", "macro", "print"}

Bra == [t |-> "Bra"]
Ket == [t |-> "Ket"]
Keyword(s) == [t |-> "Keyword", s |-> s]
Str(s) == [t |-> "Str", s |-> s]
Number(n) == [t |-> "Number", n |-> n]
Name(s) == [t |-> "Name", s |-> s]

MaxTokens == 4

Tokens == {Bra, Ket} \cup {Keyword(s) : s \in KEYWORDS}
              \cup {Str("s"), Number(42), Name("a")}

TokenSeqs == UNION {[1..n -> Tokens] : n \in 0..MaxTokens}

----------------------------------------------------------------------------
(* parser.rs: parse, one action per arm of its loop *)

\* Node::push
node_push(node, n) == [node EXCEPT !.ns = Append(@, n)]

\* the arms of parse that push a leaf for a keyword token
keyword_leaf(s) ==
    CASE s = "+" -> Plus
      [] s = "fn" -> Fn
      [] s = "let" -> Let
      [] s = "print" -> PrintKw

parsed_keywords == {"+", "fn", "let", "print"}

\* the end of parse: the assert on expr_stack and the match on cur_node
parse_finish_lax(stk, cur) == "ok"
parse_finish(stk, cur) ==
    IF stk # <<>> THEN "panic"
    ELSE IF cur.tag = "Program" THEN "ok"
    ELSE "panic"

\* the Ket arm: the match on cur_node
ket_closes(cur) == cur.tag = "S"

ParseInit ==
    /\ input \in TokenSeqs
    /\ i = 0
    /\ cur_node = Program(<<>>)
    /\ expr_stack = <<>>
    /\ pstatus = "loop"
    /\ text = <<>> /\ pos = 1 /\ lexed = <<>> /\ ast = None /\ phase = "idle"
    /\ EnvIdle
    /\ EvalIdle
    /\ ExpandIdle

AtToken == pstatus = "loop" /\ i < Len(input)

ParseBra ==
    /\ AtToken /\ input[i + 1] = Bra
    /\ expr_stack' = Append(expr_stack, cur_node)
    /\ cur_node' = S(<<>>)
    /\ i' = i + 1
    /\ UNCHANGED <<input, pstatus, notParse>>

ParseKet ==
    /\ AtToken /\ input[i + 1] = Ket
    /\ IF ket_closes(cur_node) /\ expr_stack # <<>>
       THEN /\ cur_node' = node_push(expr_stack[Len(expr_stack)], cur_node)
            /\ expr_stack' = SubSeq(expr_stack, 1, Len(expr_stack) - 1)
            /\ i' = i + 1
            /\ UNCHANGED pstatus
       ELSE /\ pstatus' = "panic"
            /\ UNCHANGED <<cur_node, expr_stack, i>>
    /\ UNCHANGED <<input, notParse>>

ParseKeyword ==
    /\ AtToken /\ input[i + 1].t = "Keyword"
    /\ input[i + 1].s \in parsed_keywords
    /\ cur_node' = node_push(cur_node, keyword_leaf(input[i + 1].s))
    /\ i' = i + 1
    /\ UNCHANGED <<input, expr_stack, pstatus, notParse>>

ParseName ==
    /\ AtToken /\ input[i + 1].t = "Name"
    /\ cur_node' = node_push(cur_node, Ident(input[i + 1].s))
    /\ i' = i + 1
    /\ UNCHANGED <<input, expr_stack, pstatus, notParse>>

ParseNumber ==
    /\ AtToken /\ input[i + 1].t = "Number"
    /\ cur_node' = node_push(cur_node, LitNum(input[i + 1].n))
    /\ i' = i + 1
    /\ UNCHANGED <<input, expr_stack, pstatus, notParse>>

ParseStr ==
    /\ AtToken /\ input[i + 1].t = "Str"
    /\ cur_node' = node_push(cur_node, LitStr(input[i + 1].s))
    /\ i' = i + 1
    /\ UNCHANGED <<input, expr_stack, pstatus, notParse>>

\* the `_ => unreachable!()` arm: any token no earlier arm matches
ParseUnreachable ==
    /\ AtToken /\ input[i + 1].t = "Keyword"
    /\ input[i + 1].s \notin parsed_keywords
    /\ pstatus' = "panic"
    /\ UNCHANGED <<input, i, cur_node, expr_stack, notParse>>

ParseEnd ==
    /\ pstatus = "loop" /\ i >= Len(input)
    /\ pstatus' = parse_finish(expr_stack, cur_node)
    /\ UNCHANGED <<input, i, cur_node, expr_stack, notParse>>

ParseNext ==
    \/ ParseBra \/ ParseKet \/ ParseKeyword \/ ParseName \/ ParseNumber \/ ParseStr
    \/ ParseUnreachable \/ ParseEnd

SpecParse == ParseInit /\ [][ParseNext]_vars

----------------------------------------------------------------------------
(* parse against the bracket structure of its input (claims C4, C5) *)

\* opened minus closed forms among the first j tokens
RECURSIVE Depth(_, _)
Depth(toks, j) ==
    IF j = 0 THEN 0
    ELSE Depth(toks, j - 1) + (IF toks[j] = Bra THEN 1 ELSE IF toks[j] = Ket THEN -1 ELSE 0)

Balanced(toks) ==
    /\ \A j \in 0..Len(toks) : Depth(toks, j) >= 0
    /\ Depth(toks, Len(toks)) = 0

CountTok(toks, tok) == Cardinality({j \in 1..Len(toks) : toks[j] = tok})

\* the token sequence a tree stands for: its leaves in order, each form
\* wrapped in one pair of brackets, the Program unwrapped
RECURSIVE Unparse(_), UnparseList(_)
Unparse(node) ==
    CASE node.tag = "Program" -> UnparseList(node.ns)
      [] node.tag = "S" -> <<Bra>> \o UnparseList(node.ns) \o <<Ket>>
      [] node.tag = "Plus" -> <<Keyword("+")>>
      [] node.tag = "Fn" -> <<Keyword("fn")>>
      [] node.tag = "Let" -> <<Keyword("let")>>
      [] node.tag = "Print" -> <<Keyword("print")>>
      [] node.tag = "Macro" -> <<Keyword("macro")>>
      [] node.tag = "Ident" -> <<Name(node.s)>>
      [] node.tag = "LitNum" -> <<Number(node.n)>>
      [] node.tag = "LitStr" -> <<Str(node.s)>>
UnparseList(ns) ==
    IF ns = <<>> THEN <<>> ELSE Unparse(Head(ns)) \o UnparseList(Tail(ns))

RECURSIVE CountTag(_, _), CountTagList(_, _)
CountTag(node, tag) ==
    (IF node.tag = tag THEN 1 ELSE 0)
        + (IF node.tag \in {"Program", "S"} THEN CountTagList(node.ns, tag) ELSE 0)
CountTagList(ns, tag) ==
    IF ns = <<>> THEN 0 ELSE CountTag(Head(ns), tag) + CountTagList(Tail(ns), tag)

\* C4: parse never returns a tree for a bracket-unbalanced token sequence:
\* it never reads past a `)` that arrives while no form is open (it fails at
\* that token), and at the end of an input with an unclosed `(` it fails.
C4_UnbalancedFails ==
    /\ pstatus \in {"loop", "ok"} => \A j \in 0..i : Depth(input, j) >= 0
    /\ pstatus = "ok" => Balanced(input)
    /\ (pstatus = "panic" /\ i < Len(input) /\ input[i + 1] = Ket) => Depth(input, i) = 0
    /\ pstatus = "loop" => ENABLED ParseNext

\* both failures have happened: inputs such as `( a ) )` stopped at the
\* second `)`, and inputs such as `( ( a )` stopped at the end
C4_Witness ==
    /\ pstatus = "panic"
    /\ \/ /\ i = 3 /\ Len(input) = 4 /\ input[4] = Ket /\ Depth(input, 3) = 0
          /\ input[1] = Bra
       \/ /\ i = Len(input) /\ i = 4 /\ Depth(input, i) = 1

\* C5: for every bracket-balanced token sequence parse returns a Program
\* that mirrors the nesting: as many S nodes as `(` tokens, the leaves in
\* token order at the depth of the forms open around them (the tree
\* unparses to the input), and Program only at the root.
C5_BalancedMirrorsNesting ==
    (pstatus \in {"ok", "panic"} /\ Balanced(input)) =>
        /\ pstatus = "ok"
        /\ cur_node.tag = "Program"
        /\ Unparse(cur_node) = input
        /\ CountTag(cur_node, "S") = CountTok(input, Bra)
        /\ CountTag(cur_node, "S") = CountTok(input, Ket)
        /\ CountTag(cur_node, "Program") = 1

\* the same with the `macro` keyword token left out of the input: this much
\* parse does
C5_WithoutMacroToken ==
    (pstatus \in {"ok", "panic"} /\ Balanced(input) /\ CountTok(input, Keyword("macro")) = 0) =>
        /\ pstatus = "ok"
        /\ cur_node.tag = "Program"
        /\ Unparse(cur_node) = input
        /\ CountTag(cur_node, "S") = CountTok(input, Bra)
        /\ CountTag(cur_node, "Program") = 1

----------------------------------------------------------------------------
(* interpreter.rs: run_node as a machine.  Each activation of run_node is  *)
(* a frame; a frame that holds a RibGuard pops one rib when it is left,    *)
(* by return or by unwinding.                                              *)

MaxStack == 12

\* LitNum(u32): a u32 is two 16-bit halves; the literals of the model are
\* below 2^31
Half == 65536
BigLit == 2147483647

\* Node::is_value
is_value(node) ==
    \/ node.tag \in {"LitStr", "LitNum"}
    \/ node.tag = "S" /\ (Len(node.ns) = 0 \/ node.ns[1] = Fn)

\* the guard of the function-application arm of run_node
is_fn_literal(n) == n.tag = "S" /\ Len(n.ns) > 0 /\ n.ns[1] = Fn

\* the arm of run_node's matches that a node takes
arm(node) ==
    IF is_value(node) THEN "value"
    ELSE IF node.tag = "S" THEN
        (IF node.ns[1] = PrintKw THEN "print"
         ELSE IF node.ns[1] = Plus THEN "plus"
         ELSE IF node.ns[1] = Let THEN "let"
         ELSE IF is_fn_literal(node.ns[1]) THEN "fn"
         ELSE "head")
    ELSE IF node.tag = "Ident" THEN "ident"
    ELSE "unexpected"

\* an activation of run_node: its input, where it stands, the values it has
\* collected, whether it holds a RibGuard, and the ribs it was entered with
Frame(node, rs) ==
    [node |-> node, pc |-> "start", k |-> 0, vals |-> <<>>, guard |-> FALSE, entry |-> rs]

Top == stack[Len(stack)]
WithTop(f) == [stack EXCEPT ![Len(stack)] = f]

\* a call of run_node from the activation on top of stk; a recursion deeper
\* than the thread's stack aborts the process
Call(stk, node, rs) ==
    IF Len(stk) < MaxStack
    THEN stack' = Append(stk, Frame(node, rs)) /\ mode' = "call"
    ELSE stack' = stk /\ mode' = "overflow"

\* the locals a frame drops when it is left: its RibGuard, if it holds one
leave_keeps_rib(f, rs) == rs
leave(f, rs) == IF f.guard THEN RibGuard_drop(rs) ELSE rs

\* run_node returns v from the top activation
Return(v) ==
    /\ stack' = SubSeq(stack, 1, Len(stack) - 1)
    /\ ribs' = leave(Top, ribs)
    /\ ret' = v
    /\ mode' = IF Len(stack) = 1 THEN "done" ELSE "ret"

\* a panic raised in the top activation
Panic ==
    /\ mode' = "unwind"
    /\ UNCHANGED <<stack, ribs, ret>>

\* line 81: a value evaluates to a clone of itself
RunValue ==
    /\ mode = "call" /\ arm(Top.node) = "value"
    /\ Return(Top.node)
    /\ UNCHANGED <<prog, out, notEval>>

\* lines 133-138
RunIdent ==
    /\ mode = "call" /\ arm(Top.node) = "ident"
    /\ IF lookup(ribs, Top.node.s) # None
       THEN Return(lookup(ribs, Top.node.s))
       ELSE Panic
    /\ UNCHANGED <<prog, out, notEval>>

\* line 139
RunUnexpected ==
    /\ mode = "call" /\ arm(Top.node) = "unexpected"
    /\ Panic
    /\ UNCHANGED <<prog, out, notEval>>

\* lines 84-85, 91-92: print and + start with run_args
RunPrintPlus ==
    /\ mode = "call" /\ arm(Top.node) \in {"print", "plus"}
    /\ stack' = WithTop([Top EXCEPT !.pc = "args", !.k = 1])
    /\ mode' = "step"
    /\ UNCHANGED <<ribs, ret, prog, out, notEval>>

\* lines 109-114: the function literal's body and formals, then run_args
fn_formals(f) == SubSeq(f.ns, 2, Len(f.ns) - 1)
fn_body(f) == f.ns[Len(f.ns)]

RunFn ==
    /\ mode = "call" /\ arm(Top.node) = "fn"
    /\ LET f == Top.node.ns[1] IN
        IF Len(f.ns) > 1 /\ \A j \in 1..Len(fn_formals(f)) : fn_formals(f)[j].tag = "Ident"
        THEN /\ stack' = WithTop([Top EXCEPT !.pc = "args", !.k = 1])
             /\ mode' = "step"
             /\ UNCHANGED <<ribs, ret>>
        ELSE Panic
    /\ UNCHANGED <<prog, out, notEval>>

\* run_args, lines 143-146: the arguments ns[1..], left to right
ArgsLeft(f) == f.k < Len(f.node.ns)

RunArgsNext ==
    /\ mode = "step" /\ Top.pc = "args" /\ ArgsLeft(Top)
    /\ Call(stack, Top.node.ns[Top.k + 1], ribs)
    /\ UNCHANGED <<ribs, ret, prog, out, notEval>>

RunArgsValue ==
    /\ mode = "ret" /\ Top.pc = "args"
    /\ stack' = WithTop([Top EXCEPT !.vals = Append(@, ret), !.k = @ + 1])
    /\ mode' = "step"
    /\ UNCHANGED <<ribs, ret, prog, out, notEval>>

\* lines 86-89
PrintDone ==
    /\ mode = "step" /\ Top.pc = "args" /\ ~ArgsLeft(Top) /\ arm(Top.node) = "print"
    /\ out' = out \o Top.vals
    /\ Return(S(<<>>))
    /\ UNCHANGED <<prog, notEval>>

\* lines 93-94: args.iter().fold(0, |a, n| a + n.expect_lit_num())
RECURSIVE sum_hi(_), sum_lo(_)
sum_hi(vals) == IF vals = <<>> THEN 0 ELSE (Head(vals).n \div Half) + sum_hi(Tail(vals))
sum_lo(vals) == IF vals = <<>> THEN 0 ELSE (Head(vals).n % Half) + sum_lo(Tail(vals))

\* the u32 sum: whether it passes 2^32 - 1, and its low 32 bits
sum_overflows(vals) == sum_hi(vals) + (sum_lo(vals) \div Half) >= Half
sum_of(vals) ==
    ((sum_hi(vals) + (sum_lo(vals) \div Half)) % Half) * Half + (sum_lo(vals) % Half)

all_lit_num(vals) == \A j \in 1..Len(vals) : vals[j].tag = "LitNum"

PlusDone ==
    /\ mode = "step" /\ Top.pc = "args" /\ ~ArgsLeft(Top) /\ arm(Top.node) = "plus"
    /\ IF ~all_lit_num(Top.vals) THEN Panic
       ELSE IF ~sum_overflows(Top.vals) THEN Return(LitNum(sum_of(Top.vals)))
       ELSE \* u32 overflow: a panic with overflow checks on, a wrapped sum without
            \/ Panic
            \/ Return(LitNum(sum_of(Top.vals)))
    /\ UNCHANGED <<prog, out, notEval>>

\* Envr::store of each (formal, actual) pair in turn, lines 121-123; the
\* result is the ribs and whether a store panicked
RECURSIVE store_all(_, _, _)
store_all(rs, names, values) ==
    IF names = <<>> \/ values = <<>> THEN [ribs |-> rs, panic |-> FALSE]
    ELSE IF store_panics(rs, Head(names).s) THEN [ribs |-> rs, panic |-> TRUE]
    ELSE store_all(store(rs, Head(names).s, Head(values)), Tail(names), Tail(values))

\* line 115: the assert on the argument count
arity_ok_lax(formals, args) == TRUE
arity_ok(formals, args) == Len(args) = Len(formals)


\* lines 115-124: arity check, push_rib, bind the formals, run the body
FnApply ==
    /\ mode = "step" /\ Top.pc = "args" /\ ~ArgsLeft(Top) /\ arm(Top.node) = "fn"
    /\ LET f == Top.node.ns[1]
           bound == store_all(push_rib(ribs), fn_formals(f), Top.vals)
           held == [Top EXCEPT !.pc = "body", !.guard = TRUE]
       IN  IF ~arity_ok(fn_formals(f), Top.vals) THEN Panic
           ELSE IF bound.panic
           THEN /\ ribs' = bound.ribs
                /\ stack' = WithTop(held)
                /\ mode' = "unwind"
                /\ UNCHANGED ret
           ELSE /\ ribs' = bound.ribs
                /\ Call(WithTop(held), fn_body(f), bound.ribs)
                /\ UNCHANGED ret
    /\ UNCHANGED <<prog, out, notEval>>

\* lines 97-101: body, args, the assert, push_rib
let_args(node) == SubSeq(node.ns, 2, Len(node.ns) - 1)
let_body(node) == node.ns[Len(node.ns)]

LetEnter ==
    /\ mode = "call" /\ arm(Top.node) = "let"
    /\ IF Len(Top.node.ns) < 2 \/ Len(let_args(Top.node)) % 2 # 0
       THEN Panic
       ELSE /\ ribs' = push_rib(ribs)
            /\ stack' = WithTop([Top EXCEPT !.pc = "let", !.guard = TRUE])
            /\ mode' = "step"
            /\ UNCHANGED ret
    /\ UNCHANGED <<prog, out, notEval>>

\* the binding a let frame is at: k bindings are stored
BindingsLeft(f) == f.k < Len(let_args(f.node)) \div 2
let_name(f) == let_args(f.node)[2 * f.k + 1]
let_expr(f) == let_args(f.node)[2 * f.k + 2]

\* lines 103-104: expect_ident on the name, then run_node on its expression
LetBind ==
    /\ mode = "step" /\ Top.pc = "let" /\ BindingsLeft(Top)
    /\ IF let_name(Top).tag # "Ident" THEN Panic
       ELSE Call(stack, let_expr(Top), ribs) /\ UNCHANGED <<ribs, ret>>
    /\ UNCHANGED <<prog, out, notEval>>

\* line 105
LetStore ==
    /\ mode = "ret" /\ Top.pc = "let"
    /\ IF store_panics(ribs, let_name(Top).s) THEN Panic
       ELSE /\ ribs' = store(ribs, let_name(Top).s, ret)
            /\ stack' = WithTop([Top EXCEPT !.vals = Append(@, ret), !.k = @ + 1])
            /\ mode' = "step"
            /\ UNCHANGED ret
    /\ UNCHANGED <<prog, out, notEval>>

\* line 107
LetBody ==
    /\ mode = "step" /\ Top.pc = "let" /\ ~BindingsLeft(Top)
    /\ Call(WithTop([Top EXCEPT !.pc = "body"]), let_body(Top.node), ribs)
    /\ UNCHANGED <<ribs, ret, prog, out, notEval>>

\* lines 107-108, 124-125: the body's value is the result; _guard is dropped
BodyReturn ==
    /\ mode = "ret" /\ Top.pc = "body"
    /\ Return(ret)
    /\ UNCHANGED <<prog, out, notEval>>

\* line 127: run_node on the head
HeadReduce ==
    /\ mode = "call" /\ arm(Top.node) = "head"
    /\ Call(WithTop([Top EXCEPT !.pc = "head"]), Top.node.ns[1], ribs)
    /\ UNCHANGED <<ribs, ret, prog, out, notEval>>

\* lines 127-129: the form with its head replaced, through run_node again
reduced_els(node, head) == S(<<head>> \o Tail(node.ns))

HeadRetry ==
    /\ mode = "ret" /\ Top.pc = "head"
    /\ Call(WithTop([Top EXCEPT !.pc = "retry"]), reduced_els(Top.node, ret), ribs)
    /\ UNCHANGED <<ribs, ret, prog, out, notEval>>

RetryReturn ==
    /\ mode = "ret" /\ Top.pc = "retry"
    /\ Return(ret)
    /\ UNCHANGED <<prog, out, notEval>>

\* unwinding leaves the activations one by one, dropping their guards
Unwind ==
    /\ mode = "unwind"
    /\ IF stack = <<>>
       THEN mode' = "failed" /\ UNCHANGED <<stack, ribs>>
       ELSE /\ stack' = SubSeq(stack, 1, Len(stack) - 1)
            /\ ribs' = leave(Top, ribs)
            /\ UNCHANGED mode
    /\ UNCHANGED <<ret, prog, out, notEval>>

EvalStep ==
    \/ RunValue \/ RunIdent \/ RunUnexpected \/ RunPrintPlus \/ RunFn
    \/ RunArgsNext \/ RunArgsValue \/ PrintDone \/ PlusDone \/ FnApply
    \/ LetEnter \/ LetBind \/ LetStore \/ LetBody \/ BodyReturn
    \/ HeadReduce \/ HeadRetry \/ RetryReturn \/ Unwind

----------------------------------------------------------------------------
(* The nodes run_node is started on: forms built from a few identifiers    *)
(* and literals in every combination, and the forms of the unit tests.     *)

MaxLit == 1

X == Ident("x")
Y == Ident("y")
F == Ident("f")

Idents == {X, Y}
Lits == {LitNum(n) : n \in 0..MaxLit}
Atoms == Lits \cup Idents
Sums == {S(<<Plus, a, b>>) : a \in Idents, b \in Atoms}
Exprs == Atoms \cup Sums
Bodies == Idents \cup {S(<<Plus, X, Y>>)}

FnLit(formals, body) == S(<<Fn>> \o formals \o <<body>>)
App(head, args) == S(<<head>> \o args)

Lets1 == {S(<<Let, n, e, b>>) : n \in Idents, e \in Exprs, b \in Exprs}
Lets2 == {S(<<Let, n1, e1, n2, e2, b>>) :
              n1 \in Idents, e1 \in Lits, n2 \in Idents, e2 \in Exprs, b \in Bodies}
LetLets == {S(<<Let, n1, e1, S(<<Let, n2, e2, b>>)>>) :
              n1 \in Idents, e1 \in Lits, n2 \in Idents, e2 \in Exprs, b \in Bodies}
LetFns == {S(<<Let, X, e, App(FnLit(<<p>>, b), <<a>>)>>) :
              e \in Lits, p \in Idents, b \in Exprs, a \in Exprs}
FormalSeqs == UNION {[1..n -> Idents] : n \in 0..2}
ActualSeqs == UNION {[1..n -> Lits] : n \in 0..2}
FnApps == {App(FnLit(ps, b), as) :
              ps \in FormalSeqs, as \in ActualSeqs, b \in Bodies \cup {LitNum(0)}}
FnFns == {App(FnLit(<<X>>, App(FnLit(<<Y>>, b), <<a>>)), <<c>>) :
              b \in Exprs, a \in Exprs, c \in Lits}
HigherOrder == {S(<<Let, F, FnLit(<<p>>, b), App(F, <<a>>)>>) :
              p \in Idents, b \in Exprs, a \in Lits}

\* a function literal with a free x, called where x has another binding or
\* after the scope it was written in is gone
CalledUnderShadow(a, b) ==
    S(<<Let, X, a, F, FnLit(<<>>, X), S(<<Let, X, b, App(F, <<>>)>>)>>)
CalledAfterScope(a) == S(<<Let, F, S(<<Let, X, a, FnLit(<<>>, X)>>), App(F, <<>>)>>)
FreeInFn == {CalledUnderShadow(a, b) : a, b \in Lits} \cup {CalledAfterScope(a) : a \in Lits}

\* forms whose head is a value that is no function literal
ValueHeaded ==
    { App(LitNum(42), <<LitNum(1)>>),
      App(LitStr("foo"), <<>>),
      App(S(<<>>), <<LitNum(1)>>),
      S(<<Let, X, LitNum(1), App(X, <<LitNum(2)>>)>>) }

\* the unit tests of interpreter.rs, and the malformed forms
TestForms ==
    { LitStr("foo"), LitNum(42), S(<<>>), FnLit(<<X>>, S(<<Plus, X, LitNum(42)>>)),
      S(<<PrintKw, LitStr("Hello world!")>>),
      S(<<PrintKw, LitNum(1), S(<<>>)>>),
      S(<<Plus>>),
      S(<<Plus, LitNum(3)>>),
      S(<<Plus, LitNum(3), LitNum(1), LitNum(1), LitNum(1)>>),
      S(<<Plus, LitNum(3), S(<<>>)>>),
      S(<<Plus, LitNum(1), LitStr("s")>>),
      S(<<Plus, LitNum(BigLit), LitNum(BigLit), LitNum(3)>>),
      S(<<Let, S(<<>>)>>),
      S(<<Let, LitNum(42)>>),
      S(<<Let, X, LitNum(42), S(<<Plus, X, LitNum(42)>>)>>),
      S(<<Let, X, LitNum(3), Y, LitNum(4), S(<<Plus, X, Y>>)>>),
      S(<<Let, X, LitNum(3), Y, S(<<Plus, X, LitNum(1)>>), S(<<Plus, X, Y>>)>>),
      S(<<Let, X, S(<<Plus, X, LitNum(0)>>), S(<<>>)>>),
      S(<<Let, X, S(<<Plus, X, LitNum(0)>>), X>>),
      App(FnLit(<<>>, S(<<>>)), <<>>),
      App(FnLit(<<X>>, S(<<Plus, X, LitNum(1)>>)), <<LitNum(42)>>),
      App(FnLit(<<X>>, X), <<LitNum(42), LitNum(42)>>),
      App(FnLit(<<X>>, App(FnLit(<<X>>, S(<<Plus, X, LitNum(1)>>)),
                             <<S(<<Plus, X, LitNum(4)>>)>>)), <<LitNum(2)>>),
      App(FnLit(<<X, Y>>, App(X, <<S(<<Plus, Y, LitNum(3)>>)>>)),
          <<FnLit(<<X>>, S(<<Plus, X, LitNum(2)>>)), LitNum(5)>>),
      S(<<Let>>), S(<<Let, X>>), S(<<Let, X, LitNum(1)>>), S(<<Let, LitNum(1), LitNum(2), X>>),
      S(<<S(<<Fn>>)>>), App(FnLit(<<LitNum(1)>>, X), <<LitNum(2)>>),
      Plus, Fn, Let, PrintKw, Program(<<>>), Ident("z") }

Forms ==
    Lets1 \cup Lets2 \cup LetLets \cup LetFns \cup FnApps \cup FnFns \cup HigherOrder
        \cup FreeInFn \cup ValueHeaded \cup TestForms

\* run_program, lines 69-70: a new Envr and run_node on the entry
EvalInit ==
    /\ prog \in Forms
    /\ ribs = Envr_new
    /\ stack = <<Frame(prog, Envr_new)>>
    /\ ret = None
    /\ mode = "call"
    /\ out = <<>>
    /\ program = None /\ result = <<>>
    /\ guards = 0 /\ hist = <<>> /\ estatus = "idle"
    /\ ParseIdle
    /\ ExpandIdle

EvalNext == EvalStep

SpecEval == EvalInit /\ [][EvalNext]_vars

\* run_node runs on one thread without suspension: a step that can be taken
\* is taken
SpecEvalLive == EvalInit /\ [][EvalNext]_vars /\ WF_vars(EvalNext)

----------------------------------------------------------------------------
(* Scopes of the evaluator (claims C1, C6, C7, C8) *)

Live == 1..Len(stack)
Terminal == mode \in {"done", "failed"}
HeldBy(f) == IF f.guard THEN 1 ELSE 0

\* C1: a rib is pushed only by a `let` form or a function application, which
\* then holds one guard; every activation, while it lives, has under it
\* exactly the ribs it was entered with, plus one while it holds its guard;
\* so when it is left, by return or by unwinding, the ribs are those of its
\* entry again (its caller's), ribs go in LIFO order, and a finished
\* evaluation leaves the environment as it was created.
C1_RibsBalanced ==
    /\ \A j \in Live :
          LET f == stack[j] IN
          /\ f.guard => arm(f.node) \in {"let", "fn"} /\ f.pc \in {"let", "body"}
          /\ f.pc \in {"let", "body"} => f.guard
          /\ Len(ribs) >= Len(f.entry) + HeldBy(f)
          /\ SubSeq(ribs, 1, Len(f.entry)) = f.entry
          /\ j < Len(stack) => Len(stack[j + 1].entry) = Len(f.entry) + HeldBy(f)
    /\ (mode # "idle" /\ stack # <<>>) => Len(ribs) = Len(Top.entry) + HeldBy(Top)
    /\ (mode # "idle" /\ stack = <<>>) => ribs = Envr_new

\* `(let x 0 (let x 1 y))` has failed in the inner body and unwound through
\* both guards
C1_Witness ==
    /\ mode = "failed"
    /\ prog = S(<<Let, X, LitNum(0), S(<<Let, X, LitNum(1), Y>>)>>)
    /\ ribs = Envr_new

\* the rib a frame pushed
OwnRib(f) == ribs[Len(f.entry) + 1]

\* the bindings of names[1..n] to values[1..n]
Bindings(names, values, n) == {[k |-> names[j].s, v |-> values[j]] : j \in 1..n}

LetNames(node) == [j \in 1..(Len(let_args(node)) \div 2) |-> let_args(node)[2 * j - 1]]

SelfRefLet == S(<<Let, X, S(<<Plus, X, LitNum(0)>>), X>>)
SeqLet == S(<<Let, X, LitNum(3), Y, S(<<Plus, X, LitNum(1)>>), S(<<Plus, X, Y>>)>>)

\* C6: a `let` binds in declaration order in one new rib: while the
\* expression of binding k+1 is evaluated the rib holds exactly the first k
\* names with the values their expressions gave, and the body runs with all
\* of them; `(let x (+ x 0) x)` with no outer x fails and
\* `(let x 3 y (+ x 1) (+ x y))` yields 7.
C6_LetSequential ==
    /\ \A j \in Live :
          LET f == stack[j] IN
          (arm(f.node) = "let" /\ f.guard) =>
              /\ Len(f.vals) = f.k
              /\ OwnRib(f) = Bindings(LetNames(f.node), f.vals, f.k)
              /\ f.pc = "body" => f.k = Len(LetNames(f.node))
              /\ j < Len(stack) =>
                    /\ stack[j + 1].node =
                          (IF f.pc = "let" THEN let_expr(f) ELSE let_body(f.node))
                    /\ stack[j + 1].entry = f.entry \o <<OwnRib(f)>>
    /\ (Terminal /\ prog = SelfRefLet) => mode = "failed"
    /\ (Terminal /\ prog = SeqLet) => (mode = "done" /\ ret = LitNum(7))

\* the second expression of `(let x 3 y (+ x 1) (+ x y))` is being evaluated
\* with x, and only x, in the let's rib
C6_Witness ==
    /\ prog = SeqLet
    /\ Len(stack) = 2
    /\ stack[1].pc = "let" /\ stack[1].k = 1
    /\ stack[2].node = S(<<Plus, X, LitNum(1)>>)
    /\ ribs = <<{[k |-> "x", v |-> LitNum(3)]}>>

Distinct(seq) == \A a, b \in 1..Len(seq) : a # b => seq[a] # seq[b]

\* the activations of function applications: arguments one by one with the
\* caller's ribs and no guard; the body only with as many values as formals,
\* in one new rib that binds each formal to its argument's value
FnFrames ==
    \A j \in Live :
        LET f == stack[j]
            lit == f.node.ns[1]
        IN  (arm(f.node) = "fn" /\ f.pc # "start") =>
            /\ f.pc \in {"args", "body"}
            /\ f.pc = "args" =>
                  /\ ~f.guard
                  /\ Len(f.vals) = f.k - 1
                  /\ j < Len(stack) =>
                        /\ stack[j + 1].node = f.node.ns[f.k + 1]
                        /\ stack[j + 1].entry = f.entry
            /\ f.pc = "body" =>
                  /\ Len(f.vals) = Len(f.node.ns) - 1
                  /\ Len(f.vals) = Len(fn_formals(lit))
                  /\ j < Len(stack) =>
                        /\ OwnRib(f) = Bindings(fn_formals(lit), f.vals, Len(f.vals))
                        /\ stack[j + 1].node = fn_body(lit)
                        /\ stack[j + 1].entry = f.entry \o <<OwnRib(f)>>
                  /\ (j = Len(stack) /\ mode = "ret") =>
                        OwnRib(f) = Bindings(fn_formals(lit), f.vals, Len(f.vals))

\* the value of body b under formals ps bound to as, for a literal body or a
\* body that is one of the formals
BodyValue(ps, as, b) ==
    /\ b \in Lits => (mode = "done" /\ ret = b)
    /\ \A n \in 1..Len(ps) : b = ps[n] => (mode = "done" /\ ret = as[n])

\* C7 as stated: applying a function literal: the arguments are evaluated
\* left to right in the caller's ribs, before any rib is pushed; with a wrong
\* number of arguments the evaluation fails; otherwise the result is the
\* value of the body in one new innermost rib binding each formal to its
\* argument's value.
C7_AsStated ==
    /\ FnFrames
    /\ \A ps \in FormalSeqs, as \in ActualSeqs, b \in Bodies \cup {LitNum(0)} :
          (Terminal /\ prog = App(FnLit(ps, b), as)) =>
              /\ Len(ps) # Len(as) => mode = "failed"
              /\ Len(ps) = Len(as) => BodyValue(ps, as, b)

\* C7 amended: as stated, for formals that are pairwise distinct; with a
\* formal named twice and the right number of arguments the evaluation
\* fails, at the second store of that name, before the body is run.
C7_FnApplication ==
    /\ FnFrames
    /\ \A ps \in FormalSeqs, as \in ActualSeqs, b \in Bodies \cup {LitNum(0)} :
          (Terminal /\ prog = App(FnLit(ps, b), as)) =>
              /\ Len(ps) # Len(as) => mode = "failed"
              /\ (Len(ps) = Len(as) /\ Distinct(ps)) => BodyValue(ps, as, b)
              /\ (Len(ps) = Len(as) /\ ~Distinct(ps)) => mode = "failed"

\* `((fn x y (+ x y)) 0 1)` is in its body with x and y bound
C7_Witness ==
    /\ prog = App(FnLit(<<X, Y>>, S(<<Plus, X, Y>>)), <<LitNum(0), LitNum(1)>>)
    /\ Len(stack) = 2
    /\ stack[1].pc = "body"
    /\ stack[2].node = S(<<Plus, X, Y>>)
    /\ ribs = <<{[k |-> "x", v |-> LitNum(0)], [k |-> "y", v |-> LitNum(1)]}>>

\* C8: lexical scoping: a free identifier of a function literal's body means
\* the binding visible where the literal was written: called where the name
\* is shadowed by a later binding, or after the scope of the literal is
\* gone, the function still yields the value of the definition site.
C8_LexicalScope ==
    \A a, b \in Lits :
        /\ (Terminal /\ prog = CalledUnderShadow(a, b)) => (mode = "done" /\ ret = a)
        /\ (Terminal /\ prog = CalledAfterScope(a)) => (mode = "done" /\ ret = a)

----------------------------------------------------------------------------
(* interpreter.rs: run_program, one turn of its loop per top-level entry.  *)

MaxRun == 3

\* top-level entries: the values of test_values, entries that bind x, y and f
\* in a `let`, entries that use x outside any `let`, and a bare keyword
RunEntries ==
    { LitStr("foo"), LitNum(42),
      S(<<Let, X, LitNum(1), X>>),
      X,
      S(<<Let, Y, LitNum(2), S(<<Plus, X, Y>>)>>),
      S(<<PrintKw, LitNum(1)>>),
      S(<<Let, F, FnLit(<<X>>, X), App(F, <<LitNum(5)>>)>>),
      S(<<Plus, LitNum(1), LitNum(2)>>),
      Plus }

Programs == {Program(ns) : ns \in UNION {[1..n -> RunEntries] : n \in 0..MaxRun}}

\* line 65; the input is a Program or, for the else branch, some other node
RunInit ==
    /\ program \in Programs \cup {S(<<>>)}
    /\ result = <<>>
    /\ mode = "next"
    /\ prog = None /\ stack = <<>> /\ ret = None /\ out = <<>>
    /\ EnvIdle
    /\ ParseIdle
    /\ ExpandIdle

\* lines 68-70: the next entry, a new Envr, run_node on the entry
RunEntry ==
    /\ mode = "next" /\ program.tag = "Program" /\ Len(result) < Len(program.ns)
    /\ prog' = program.ns[Len(result) + 1]
    /\ ribs' = Envr_new
    /\ stack' = <<Frame(program.ns[Len(result) + 1], Envr_new)>>
    /\ mode' = "call"
    /\ UNCHANGED <<ret, out, notEval>>

\* line 70: result.push of what run_node returned; envr is dropped
result_push(res, v) == Append(res, v)

RunPush ==
    /\ mode = "done" /\ program.tag = "Program"
    /\ result' = result_push(result, ret)
    /\ mode' = "next"
    /\ UNCHANGED <<prog, stack, ret, out, ribs, program,
                   guards, hist, estatus, parseVars, lexVars, expandVars>>

\* line 76
RunReturn ==
    /\ mode = "next" /\ program.tag = "Program" /\ Len(result) = Len(program.ns)
    /\ mode' = "returned"
    /\ UNCHANGED <<prog, stack, ret, out, ribs, notEval>>

\* lines 72-74
RunNotProgram ==
    /\ mode = "next" /\ program.tag # "Program"
    /\ mode' = "failed"
    /\ UNCHANGED <<prog, stack, ret, out, ribs, notEval>>

RunNext == RunEntry \/ RunPush \/ RunReturn \/ RunNotProgram \/ EvalStep

SpecRunProgram == RunInit /\ [][RunNext]_vars

----------------------------------------------------------------------------
(* run_program entry by entry (claim C12) *)

\* the entries whose evaluation on their own fails: x is bound nowhere, a
\* keyword is no expression
FailsAlone(e) == e \in {X, S(<<Let, Y, LitNum(2), S(<<Plus, X, Y>>)>>), Plus}

\* what each other entry evaluates to on its own
ValueAlone(e) ==
    CASE e = S(<<Let, X, LitNum(1), X>>) -> LitNum(1)
      [] e = S(<<PrintKw, LitNum(1)>>) -> S(<<>>)
      [] e = S(<<Let, F, FnLit(<<X>>, X), App(F, <<LitNum(5)>>)>>) -> LitNum(5)
      [] e = S(<<Plus, LitNum(1), LitNum(2)>>) -> LitNum(3)
      [] OTHER -> e

\* C12: run_program takes the entries in order, runs each on an environment
\* with no ribs, and collects one result per entry in entry order; each
\* result is what the entry evaluates to on its own, whatever the entries
\* before it have bound, and an entry that fails on its own fails the run.
C12_FreshEnvrPerEntry ==
    program.tag = "Program" =>
        /\ Len(result) <= Len(program.ns)
        /\ \A k \in 1..Len(result) :
              ~FailsAlone(program.ns[k]) /\ result[k] = ValueAlone(program.ns[k])
        /\ stack # <<>> =>
              /\ Len(result) < Len(program.ns)
              /\ stack[1].node = program.ns[Len(result) + 1]
              /\ stack[1].entry = <<>>
        /\ (mode = "call" /\ Len(stack) = 1) => ribs = <<>>
        /\ mode = "done" =>
              /\ ribs = <<>>
              /\ ~FailsAlone(program.ns[Len(result) + 1])
              /\ ret = ValueAlone(program.ns[Len(result) + 1])
        /\ mode = "failed" =>
              /\ Len(result) < Len(program.ns)
              /\ FailsAlone(program.ns[Len(result) + 1])
        /\ mode = "returned" => Len(result) = Len(program.ns)

\* `(let x 1 x) "foo" (let f (fn x x) (f 5))` has returned `1 "foo" 5`
C12_Witness ==
    /\ mode = "returned"
    /\ program = Program(<<S(<<Let, X, LitNum(1), X>>), LitStr("foo"),
                            S(<<Let, F, FnLit(<<X>>, X), App(F, <<LitNum(5)>>)>>)>>)
    /\ result = <<LitNum(1), LitStr("foo"), LitNum(5)>>

\* `(let x 1 x) x` has failed at its second entry: the x of the first entry
\* is gone
C12_WitnessNoLeak ==
    /\ mode = "failed"
    /\ program = Program(<<S(<<Let, X, LitNum(1), X>>), X>>)
    /\ result = <<LitNum(1)>>

----------------------------------------------------------------------------
(* expand.rs: fold and its folders.  Unhygienic.macros is a HashMap from a *)
(* name to (args, body): a set of entries with pairwise distinct names.    *)

has_macro(ms, name) == \E e \in ms : e.name = name
macro_of(ms, name) == CHOOSE e \in ms : e.name = name

\* HashMap::insert: a later definition of a name replaces the earlier one
macros_insert_only(ms, name, args, body) ==
    {[name |-> name, args |-> args, body |-> body]}
macros_insert(ms, name, args, body) ==
    {e \in ms : e.name # name} \cup {[name |-> name, args |-> args, body |-> body]}

\* the results of fold: a node and the macros after it, or a panic
Folded(n, ms) == [ok |-> TRUE, n |-> n, m |-> ms]
FoldPanics(ms) == [ok |-> FALSE, n |-> None, m |-> ms]

\* Node::subst(args, actuals): the body with each Ident that names a
\* parameter replaced by the actual at that parameter's position
ParamIndex(params, s) == CHOOSE j \in 1..Len(params) : params[j] = s /\ \A h \in 1..(j - 1) : params[h] # s

RECURSIVE subst(_, _, _)
subst(node, params, actuals) ==
    IF node.tag = "Ident"
    THEN (IF \E j \in 1..Len(params) : params[j] = node.s /\ j <= Len(actuals)
          THEN actuals[ParamIndex(params, node.s)]
          ELSE node)
    ELSE IF node.tag \in {"S", "Program"}
    THEN [node EXCEPT !.ns = [j \in 1..Len(node.ns) |-> subst(node.ns[j], params, actuals)]]
    ELSE node

\* Unhygienic::fold_ident
Unhygienic_fold_ident_unchecked(ns, ms) ==
    IF has_macro(ms, ns[1].s)
    THEN Folded(subst(macro_of(ms, ns[1].s).body, macro_of(ms, ns[1].s).args, Tail(ns)), ms)
    ELSE Folded(S(ns), ms)
Unhygienic_fold_ident(ns, ms) ==
    IF has_macro(ms, ns[1].s)
    THEN (IF Len(ns) - 1 = Len(macro_of(ms, ns[1].s).args)
          THEN Folded(subst(macro_of(ms, ns[1].s).body, macro_of(ms, ns[1].s).args, Tail(ns)), ms)
          ELSE FoldPanics(ms))
    ELSE Folded(S(ns), ms)

\* Unhygienic::fold_macro: ns[1] is the name, the last node the body, the
\* nodes between them the parameters
Unhygienic_fold_macro(ns, ms) ==
    IF Len(ns) < 3 \/ \E j \in 2..(Len(ns) - 1) : ns[j].tag # "Ident"
    THEN FoldPanics(ms)
    ELSE Folded(S(<<>>),
                macros_insert(ms, ns[2].s,
                              [j \in 1..(Len(ns) - 3) |-> ns[j + 2].s], ns[Len(ns)]))

\* fold, with the folder fld ("Unhygienic" or "Noop") and the macros it holds
RECURSIVE fold(_, _, _), fold_list(_, _, _)
fold(node, fld, ms) ==
    IF node.tag = "Program"
    THEN LET r == fold_list(node.ns, fld, ms)
         IN  IF r.ok THEN Folded(Program(r.n), r.m) ELSE FoldPanics(r.m)
    ELSE IF node.tag = "S"
    THEN (IF node.ns = <<>> THEN FoldPanics(ms)
          ELSE IF node.ns[1] = Macro /\ fld = "Unhygienic"
               THEN Unhygienic_fold_macro(node.ns, ms)
          ELSE IF node.ns[1].tag = "Ident" /\ fld = "Unhygienic"
               THEN Unhygienic_fold_ident(node.ns, ms)
          ELSE LET r == fold_list(node.ns, fld, ms)
               IN  IF r.ok THEN Folded(S(r.n), r.m) ELSE FoldPanics(r.m))
    ELSE IF node.tag = "Macro" THEN FoldPanics(ms)
    ELSE Folded(node, ms)

\* ns.into_iter().map(|n| fold(n, fld)).collect(): left to right
fold_list(ns, fld, ms) ==
    IF ns = <<>> THEN Folded(<<>>, ms)
    ELSE LET h == fold(Head(ns), fld, ms)
         IN  IF ~h.ok THEN FoldPanics(h.m)
             ELSE LET r == fold_list(Tail(ns), fld, h.m)
                  IN  IF r.ok THEN Folded(<<h.n>> \o r.n, r.m) ELSE FoldPanics(r.m)

----------------------------------------------------------------------------
(* main.rs unhygienic(): fold(ast, &mut Unhygienic::new()), one step of    *)
(* the Program arm's map per top-level entry.                              *)

MaxEntries == 3

M == Ident("m")
N == Ident("n")
G == Ident("g")

Entries ==
    { S(<<Macro, M, X, S(<<Plus, X, X>>)>>),
      S(<<Macro, M, S(<<N>>)>>),
      S(<<Macro, N, X, Y, S(<<F, X, S(<<M, Y>>)>>)>>),
      S(<<Macro, M>>),
      S(<<M, LitNum(1)>>),
      S(<<M>>),
      S(<<M, S(<<N, LitNum(1), LitNum(2)>>)>>),
      S(<<N, S(<<Macro, M, LitNum(2)>>), X>>),
      S(<<F, S(<<M, LitNum(1)>>)>>),
      S(<<F, S(<<Macro, M, LitNum(7)>>)>>),
      S(<<Plus, S(<<M, LitNum(1)>>), LitNum(2)>>),
      S(<<Plus, S(<<Macro, G, LitNum(2)>>), S(<<G>>)>>),
      S(<<Plus, S(<<G>>), S(<<Macro, G, LitNum(2)>>)>>),
      S(<<>>),
      X }

Trees == {Program(ns) : ns \in UNION {[1..n -> Entries] : n \in 0..MaxEntries}}

ExpandInit ==
    /\ tree \in Trees
    /\ folder = "Unhygienic"
    /\ folded = <<>>
    /\ macros = {}
    /\ xstatus = "fold"
    /\ EnvIdle
    /\ ParseIdle
    /\ EvalIdle

EntriesLeft == xstatus = "fold" /\ Len(folded) < Len(tree.ns)
NextEntry == tree.ns[Len(folded) + 1]

\* the step of the map for the entry NextEntry
FoldEntry ==
    LET r == fold(NextEntry, folder, macros)
    IN  /\ macros' = r.m
        /\ IF r.ok
           THEN /\ folded' = Append(folded, [n |-> r.n, before |-> macros])
                /\ UNCHANGED xstatus
           ELSE /\ xstatus' = "panic"
                /\ UNCHANGED folded
        /\ UNCHANGED <<tree, folder, notExpand>>

FoldMacroForm ==
    /\ EntriesLeft /\ NextEntry.tag = "S" /\ NextEntry.ns # <<>> /\ NextEntry.ns[1] = Macro
    /\ FoldEntry

FoldIdentForm ==
    /\ EntriesLeft /\ NextEntry.tag = "S" /\ NextEntry.ns # <<>>
    /\ NextEntry.ns[1].tag = "Ident"
    /\ FoldEntry

FoldOtherForm ==
    /\ EntriesLeft /\ NextEntry.tag = "S"
    /\ IF NextEntry.ns = <<>> THEN TRUE
       ELSE NextEntry.ns[1] # Macro /\ NextEntry.ns[1].tag # "Ident"
    /\ FoldEntry

FoldLeaf ==
    /\ EntriesLeft /\ NextEntry.tag # "S"
    /\ FoldEntry

FoldFinish ==
    /\ xstatus = "fold" /\ Len(folded) = Len(tree.ns)
    /\ xstatus' = "ok"
    /\ UNCHANGED <<tree, folder, folded, macros, notExpand>>

ExpandNext == FoldMacroForm \/ FoldIdentForm \/ FoldOtherForm \/ FoldLeaf \/ FoldFinish

SpecExpand == ExpandInit /\ [][ExpandNext]_vars

\* expand.rs test_noop: fold(p, &mut NoopFolder)
NoopInit ==
    /\ tree \in Trees
    /\ folder = "Noop"
    /\ folded = <<>>
    /\ macros = {}
    /\ xstatus = "fold"
    /\ EnvIdle
    /\ ParseIdle
    /\ EvalIdle

SpecNoop == NoopInit /\ [][ExpandNext]_vars

----------------------------------------------------------------------------
(* Identifier-headed forms under the Unhygienic folder (claims C9, C10) *)

IsIdentForm(e) == e.tag = "S" /\ e.ns # <<>> /\ e.ns[1].tag = "Ident"

\* the macros after top-level entry k was folded
MacrosAfter(k) == IF k < Len(folded) THEN folded[k + 1].before ELSE macros

\* what a registered invocation must have become
Substituted(e, ms) ==
    subst(macro_of(ms, e.ns[1].s).body, macro_of(ms, e.ns[1].s).args, Tail(e.ns))

ArityMatches(e, ms) == Len(e.ns) - 1 = Len(macro_of(ms, e.ns[1].s).args)

\* C9: an identifier-headed form whose head names a registered macro: with
\* as many arguments as recorded parameters it is replaced by the recorded
\* body with each parameter identifier replaced by the raw argument at its
\* position, and nothing in the arguments or the result is expanded further
\* (no definition inside them is registered, no invocation inside them is
\* replaced); with another number of arguments expansion fails.  The same
\* holds for an invocation that is a child of a keyword-headed form.
C9_MacroInvocation ==
    /\ \A k \in 1..Len(folded) :
          LET e == tree.ns[k]
              ms == folded[k].before
          IN  /\ (IsIdentForm(e) /\ has_macro(ms, e.ns[1].s)) =>
                    /\ ArityMatches(e, ms)
                    /\ folded[k].n = Substituted(e, ms)
                    /\ MacrosAfter(k) = ms
              /\ (e.tag = "S" /\ e.ns # <<>> /\ e.ns[1] = Plus) =>
                    \A j \in 2..Len(e.ns) :
                        (IsIdentForm(e.ns[j]) /\ has_macro(ms, e.ns[j].ns[1].s)) =>
                            /\ ArityMatches(e.ns[j], ms)
                            /\ folded[k].n.ns[j] = Substituted(e.ns[j], ms)
    /\ (xstatus = "panic" /\ IsIdentForm(NextEntry) /\ has_macro(macros, NextEntry.ns[1].s)) =>
          ~ArityMatches(NextEntry, macros)

\* with n and then m registered, `(m (n 1 2))` has become `(+ (n 1 2) (n 1 2))`:
\* the argument went in raw and the result was not expanded again
C9_Witness ==
    /\ xstatus = "ok"
    /\ Len(folded) = 3
    /\ tree.ns[3] = S(<<M, S(<<N, LitNum(1), LitNum(2)>>)>>)
    /\ has_macro(folded[3].before, "n")
    /\ folded[3].n = S(<<Plus, S(<<N, LitNum(1), LitNum(2)>>), S(<<N, LitNum(1), LitNum(2)>>)>>)

\* C10: an identifier-headed form whose head is no registered macro comes
\* back with the same head and every child expanded, so an invocation or a
\* definition nested in its arguments is expanded too.
C10_NonMacroChildrenExpanded ==
    \A k \in 1..Len(folded) :
        LET e == tree.ns[k]
            ms == folded[k].before
            children == fold_list(e.ns, "Unhygienic", ms)
        IN  (IsIdentForm(e) /\ ~has_macro(ms, e.ns[1].s) /\ children.ok) =>
                /\ folded[k].n = S(children.n)
                /\ MacrosAfter(k) = children.m

----------------------------------------------------------------------------
(* Macro definitions under the Unhygienic folder (claim C11) *)

\* a well-formed definition form `(macro name p1 ... pn body)`
IsMacroDef(e) ==
    /\ e.tag = "S" /\ Len(e.ns) >= 3 /\ e.ns[1] = Macro
    /\ \A j \in 2..(Len(e.ns) - 1) : e.ns[j].tag = "Ident"
DefName(e) == e.ns[2].s
DefParams(e) == [j \in 1..(Len(e.ns) - 3) |-> e.ns[j + 2].s]
DefBody(e) == e.ns[Len(e.ns)]
DefEntry(e) == [name |-> DefName(e), args |-> DefParams(e), body |-> DefBody(e)]

IsKeywordForm(e) == e.tag = "S" /\ e.ns # <<>> /\ e.ns[1] \in {Plus, Fn, Let, PrintKw}

\* the definitions of name that the traversal of top-level entry e visits:
\* e itself, or a child of a keyword-headed e
DefsIn(e, name) ==
    IF IsMacroDef(e) THEN (IF DefName(e) = name THEN {e} ELSE {})
    ELSE IF IsKeywordForm(e)
    THEN {e.ns[j] : j \in {h \in 1..Len(e.ns) : IsMacroDef(e.ns[h]) /\ DefName(e.ns[h]) = name}}
    ELSE {}

DefinedBefore(k, name) == \E h \in 1..(k - 1) : DefsIn(tree.ns[h], name) # {}

\* C11: a definition form `(macro name p1 ... pn body)` becomes the empty
\* form and records name -> ([p1..pn], body as written), leaving the other
\* names' records alone; the name stays recorded to the end of the run; an
\* identifier-headed form is treated as an invocation exactly when a
\* definition of its head was visited earlier in the left-to-right
\* traversal, in an earlier top-level entry or earlier in the same form, and
\* is left as it is otherwise; an expansion that completes has as many
\* top-level entries as its input.
C11_MacroDefinition ==
    /\ Len(folded) <= Len(tree.ns)
    /\ xstatus = "ok" => Len(folded) = Len(tree.ns)
    /\ \A k \in 1..Len(folded) :
          LET e == tree.ns[k]
              ms == folded[k].before
          IN  /\ IsMacroDef(e) =>
                    /\ folded[k].n = S(<<>>)
                    /\ {r \in MacrosAfter(k) : r.name = DefName(e)} = {DefEntry(e)}
                    /\ {r \in MacrosAfter(k) : r.name # DefName(e)}
                          = {r \in ms : r.name # DefName(e)}
                    /\ \A h \in k..Len(folded) : has_macro(MacrosAfter(h), DefName(e))
              /\ IsIdentForm(e) =>
                    /\ has_macro(ms, e.ns[1].s) <=> DefinedBefore(k, e.ns[1].s)
                    /\ DefinedBefore(k, e.ns[1].s) => folded[k].n = Substituted(e, ms)
                    /\ ~DefinedBefore(k, e.ns[1].s) => folded[k].n = e
              /\ IsKeywordForm(e) =>
                    \A j \in 2..Len(e.ns) :
                        LET c == e.ns[j]
                            here == {h \in 2..(j - 1) : IsMacroDef(e.ns[h])
                                                        /\ DefName(e.ns[h]) = c.ns[1].s}
                        IN  /\ IsMacroDef(c) =>
                                  /\ folded[k].n.ns[j] = S(<<>>)
                                  /\ \A h \in k..Len(folded) :
                                        has_macro(MacrosAfter(h), DefName(c))
                            /\ (IsIdentForm(c) /\ here # {}) =>
                                  folded[k].n.ns[j]
                                      = subst(DefBody(e.ns[MaxOf(here)]),
                                              DefParams(e.ns[MaxOf(here)]), Tail(c.ns))
                            /\ (IsIdentForm(c) /\ here = {} /\ DefinedBefore(k, c.ns[1].s)) =>
                                  folded[k].n.ns[j] = Substituted(c, ms)
                            /\ (IsIdentForm(c) /\ here = {} /\ ~DefinedBefore(k, c.ns[1].s)) =>
                                  folded[k].n.ns[j] = c

\* `(+ (g) (macro g 2)) (macro m x (+ x x)) (+ (g) (macro g 2))` has become
\* `(+ (g) ()) () (+ 2 ())`: g is no invocation before its definition and is
\* one in the later entry, m is recorded with its body as written, and three
\* entries came back
C11_Witness ==
    /\ xstatus = "ok"
    /\ Len(folded) = 3
    /\ tree.ns[2] = S(<<Macro, M, X, S(<<Plus, X, X>>)>>)
    /\ folded[1].n = S(<<Plus, S(<<G>>), S(<<>>)>>)
    /\ folded[2].n = S(<<>>)
    /\ folded[3].n = S(<<Plus, LitNum(2), S(<<>>)>>)
    /\ macros = {[name |-> "g", args |-> <<>>, body |-> LitNum(2)],
                 [name |-> "m", args |-> <<"x">>, body |-> S(<<Plus, X, X>>)]}

----------------------------------------------------------------------------
(* The `+` form (claim C13) *)

\* the sum of the numbers of a sequence of number literals as two parts, the
\* multiples of 2^16 and the rest, so that a sum beyond 2^32 can be written
RECURSIVE PartSum(_, _)
PartSum(lits, hi) ==
    IF lits = <<>> THEN 0
    ELSE (IF hi THEN Head(lits).n \div Half ELSE Head(lits).n % Half) + PartSum(Tail(lits), hi)

\* the literal n is the sum of the literals lits
IsSumOf(n, lits) ==
    /\ n.tag = "LitNum"
    /\ n.n \div Half = PartSum(lits, TRUE) + (PartSum(lits, FALSE) \div Half)
    /\ n.n % Half = PartSum(lits, FALSE) % Half

FitsU32(lits) == PartSum(lits, TRUE) + (PartSum(lits, FALSE) \div Half) < Half

AllNumbers(ns) == \A j \in 1..Len(ns) : ns[j].tag = "LitNum"
AllValues(ns) == \A j \in 1..Len(ns) : is_value(ns[j])

\* a `+` activation takes its arguments one by one, left to right
PlusFrames ==
    \A j \in Live :
        LET f == stack[j]
        IN  (arm(f.node) = "plus" /\ f.pc = "args") =>
                /\ Len(f.vals) = f.k - 1
                /\ j < Len(stack) => stack[j + 1].node = f.node.ns[f.k + 1]

\* C13: a `+` form evaluates its arguments left to right; with arguments
\* that are all numbers it yields the number literal that is their sum (0
\* for no argument); with an argument that is a string, the empty form or a
\* function literal it fails.
C13_PlusSum ==
    /\ PlusFrames
    /\ (Terminal /\ arm(prog) = "plus" /\ AllValues(Tail(prog.ns))) =>
          IF AllNumbers(Tail(prog.ns))
          THEN mode = "done" /\ IsSumOf(ret, Tail(prog.ns))
          ELSE mode = "failed"

\* the same for sums that a u32 holds: this much the `+` form does
C13_SumWithinU32 ==
    /\ PlusFrames
    /\ (Terminal /\ arm(prog) = "plus" /\ AllValues(Tail(prog.ns))) =>
          IF ~AllNumbers(Tail(prog.ns)) THEN mode = "failed"
          ELSE FitsU32(Tail(prog.ns)) => (mode = "done" /\ IsSumOf(ret, Tail(prog.ns)))

\* `(+ 3 1 1 1)` has yielded 6
C13_SumReached ==
    /\ mode = "done"
    /\ prog = S(<<Plus, LitNum(3), LitNum(1), LitNum(1), LitNum(1)>>)
    /\ ret = LitNum(6)

----------------------------------------------------------------------------
(* lexer.rs: lex, one action per arm of next_token; parser.rs: Display for *)
(* Node.  A text is a sequence of characters; a Str is known by its        *)
(* spelling.                                                               *)

Words == KEYWORDS \cup {"a", "b", "s", "a b"}

\* the characters of a Str
Spell(w) ==
    CASE w = "+" -> <<"+">>
      [] w = "fn" -> <<"f", "n">>
      [] w = "let" -> <<"l", "e", "t">>
      [] w = "macro" -> <<"m", "a", "c", "r", "o">>
      [] w = "print" -> <<"p", "r", "i", "n", "t">>
      [] w = "a" -> <<"a">>
      [] w = "b" -> <<"b">>
      [] w = "s" -> <<"s">>
      [] w = "a b" -> <<"a", " ", "b">>

\* the Str with the characters cs
StrOf(cs) == CHOOSE w \in Words : Spell(w) = cs

DigitChars == <<"0", "1", "2", "3", "4", "5", "6", "7", "8", "9">>
is_digit(c) == \E d \in 1..10 : DigitChars[d] = c
digit_value(c) == (CHOOSE d \in 1..10 : DigitChars[d] = c) - 1

\* u32's Display: decimal, no leading zero
RECURSIVE fmt_u32(_)
fmt_u32(n) ==
    IF n < 10 THEN <<DigitChars[n + 1]>>
    ELSE fmt_u32(n \div 10) \o <<DigitChars[(n % 10) + 1]>>

\* str::parse::<u32> on a run of digits
RECURSIVE parse_u32(_)
parse_u32(cs) ==
    IF cs = <<>> THEN 0
    ELSE parse_u32(SubSeq(cs, 1, Len(cs) - 1)) * 10 + digit_value(cs[Len(cs)])

\* impl fmt::Display for Node
RECURSIVE Node_fmt(_), write_node_list(_)
Node_fmt(node) ==
    CASE node.tag = "Program" -> write_node_list(node.ns)
      [] node.tag = "S" -> <<"(">> \o write_node_list(node.ns) \o <<")">>
      [] node.tag = "Plus" -> Spell("+")
      [] node.tag = "Fn" -> Spell("fn")
      [] node.tag = "Let" -> Spell("let")
      [] node.tag = "Print" -> Spell("print")
      [] node.tag = "Ident" -> Spell(node.s)
      [] node.tag = "LitNum" -> fmt_u32(node.n)
      [] node.tag = "LitStr" -> Spell(node.s)
write_node_list(ns) ==
    IF ns = <<>> THEN <<>>
    ELSE IF Len(ns) = 1 THEN Node_fmt(ns[1])
    ELSE Node_fmt(Head(ns)) \o <<" ">> \o write_node_list(Tail(ns))

is_whitespace(c) == c = " "

\* Lexer::eat_whitespace: the cursor after it
RECURSIVE eat_whitespace(_, _)
eat_whitespace(txt, p) ==
    IF p <= Len(txt) /\ is_whitespace(txt[p]) THEN eat_whitespace(txt, p + 1) ELSE p

\* the loop of lex_string: the cursor at the closing quote, or past the end
RECURSIVE string_end(_, _)
string_end(txt, p) ==
    IF p <= Len(txt) /\ txt[p] # "\"" THEN string_end(txt, p + 1) ELSE p

\* the loop of lex_number
RECURSIVE number_end(_, _)
number_end(txt, p) ==
    IF p <= Len(txt) /\ is_digit(txt[p]) THEN number_end(txt, p + 1) ELSE p

\* the loop of lex_keyword_or_name
RECURSIVE word_end(_, _)
word_end(txt, p) ==
    IF p <= Len(txt) /\ ~(is_whitespace(txt[p]) \/ txt[p] \in {"(", ")", "\""})
    THEN word_end(txt, p + 1) ELSE p

\* lex_keyword_or_name: KEYWORDS.binary_search on the word
lex_keyword_or_name(cs) ==
    IF StrOf(cs) \in KEYWORDS THEN Keyword(StrOf(cs)) ELSE Name(StrOf(cs))

MaxWords == 4

Quoted(w) == <<"\"">> \o Spell(w) \o <<"\"">>

Lexemes ==
    { <<"(">>, <<")">>, Spell("+"), Spell("macro"), Spell("a"), fmt_u32(42),
      Quoted("s"), Quoted("a b") }

RECURSIVE Join(_)
Join(ws) == IF ws = <<>> THEN <<>> ELSE Head(ws) \o <<" ">> \o Join(Tail(ws))

Texts == {Join(ws) : ws \in UNION {[1..n -> Lexemes] : n \in 0..MaxWords}}

\* main.rs print: lex the input, parse the tokens, print the tree; then the
\* printed text goes through lex and parse again
RoundInit ==
    /\ text \in Texts
    /\ pos = 1
    /\ lexed = <<>>
    /\ ast = None
    /\ phase = "first"
    /\ input = <<>> /\ i = 0 /\ cur_node = None /\ expr_stack = <<>> /\ pstatus = "idle"
    /\ EnvIdle
    /\ EvalIdle
    /\ ExpandIdle

Lexing == phase \in {"first", "second"} /\ pstatus = "idle"
AtChar == eat_whitespace(text, pos)
Peek == IF AtChar <= Len(text) THEN text[AtChar] ELSE "eof"

lexFrame == <<text, ast, phase, parseVars, envVars, evalVars, expandVars>>

LexBra ==
    /\ Lexing /\ Peek = "("
    /\ lexed' = Append(lexed, Bra)
    /\ pos' = AtChar + 1
    /\ UNCHANGED lexFrame

LexKet ==
    /\ Lexing /\ Peek = ")"
    /\ lexed' = Append(lexed, Ket)
    /\ pos' = AtChar + 1
    /\ UNCHANGED lexFrame

\* lex_string: the characters up to the next quote, which is eaten
LexString ==
    /\ Lexing /\ Peek = "\""
    /\ LET e == string_end(text, AtChar + 1)
       IN  /\ lexed' = Append(lexed, Str(StrOf(SubSeq(text, AtChar + 1, e - 1))))
           /\ pos' = IF e <= Len(text) THEN e + 1 ELSE e
    /\ UNCHANGED lexFrame

LexNumber ==
    /\ Lexing /\ is_digit(Peek)
    /\ LET e == number_end(text, AtChar)
       IN  /\ lexed' = Append(lexed, Number(parse_u32(SubSeq(text, AtChar, e - 1))))
           /\ pos' = e
    /\ UNCHANGED lexFrame

LexKeywordOrName ==
    /\ Lexing /\ Peek \notin {"eof", "(", ")", "\""} /\ ~is_digit(Peek)
    /\ LET e == word_end(text, AtChar)
       IN  /\ lexed' = Append(lexed, lex_keyword_or_name(SubSeq(text, AtChar, e - 1)))
           /\ pos' = e
    /\ UNCHANGED lexFrame

\* nothing but whitespace is left: lex returns its tokens and parse starts
\* on them
LexReturn ==
    /\ Lexing /\ Peek = "eof"
    /\ pos' = AtChar
    /\ input' = lexed
    /\ i' = 0
    /\ cur_node' = Program(<<>>)
    /\ expr_stack' = <<>>
    /\ pstatus' = "loop"
    /\ UNCHANGED <<text, lexed, ast, phase, envVars, evalVars, expandVars>>

\* println!("{}", ast), and lex on what was printed
PrintAst ==
    /\ phase = "first" /\ pstatus = "ok"
    /\ ast' = cur_node
    /\ text' = Node_fmt(cur_node)
    /\ pos' = 1
    /\ lexed' = <<>>
    /\ phase' = "second"
    /\ pstatus' = "idle"
    /\ UNCHANGED <<input, i, cur_node, expr_stack, envVars, evalVars, expandVars>>

RoundNext ==
    \/ LexBra \/ LexKet \/ LexString \/ LexNumber \/ LexKeywordOrName \/ LexReturn
    \/ ParseBra \/ ParseKet \/ ParseKeyword \/ ParseName \/ ParseNumber \/ ParseStr
    \/ ParseUnreachable \/ ParseEnd
    \/ PrintAst

SpecRoundTrip == RoundInit /\ [][RoundNext]_vars

----------------------------------------------------------------------------
(* Printing and reading back (claim C14) *)

ReadBack == phase = "second" /\ pstatus \in {"ok", "panic"}

\* C14: a tree that parse produced, printed, lexed and parsed again, gives a
\* tree equal to it, whatever forms, keywords, identifiers, numbers and
\* strings it holds.
C14_RoundTrip ==
    ReadBack => (pstatus = "ok" /\ cur_node = ast)

\* the same for trees that hold no string literal: this much holds
C14_WithoutStrings ==
    (ReadBack /\ CountTag(ast, "LitStr") = 0) => (pstatus = "ok" /\ cur_node = ast)

\* `( + 42 )` has been printed as `(+ 42)` and read back as the same tree
C14_ReadBackReached ==
    /\ ReadBack
    /\ text = <<"(", "+", " ", "4", "2", ")">>
    /\ ast = Program(<<S(<<Plus, LitNum(42)>>)>>)
    /\ cur_node = ast

----------------------------------------------------------------------------
(* The leaf arms of parse (claim C15) *)

\* the leaf a token other than a bracket stands for
LeafOf(tok) ==
    CASE tok = Keyword("+") -> Plus
      [] tok = Keyword("fn") -> Fn
      [] tok = Keyword("let") -> Let
      [] tok = Keyword("print") -> PrintKw
      [] tok = Keyword("macro") -> Macro
      [] tok.t = "Name" -> Ident(tok.s)
      [] tok.t = "Number" -> LitNum(tok.n)
      [] tok.t = "Str" -> LitStr(tok.s)

\* the tokens that the nodes under construction stand for: the forms on
\* expr_stack and cur_node are open, so their `)` is still to come
RECURSIVE UnparseOpen(_)
UnparseOpen(nodes) ==
    IF nodes = <<>> THEN <<>>
    ELSE (IF Head(nodes).tag = "S" THEN <<Bra>> ELSE <<>>)
             \o UnparseList(Head(nodes).ns) \o UnparseOpen(Tail(nodes))

BareKeyword == Len(input) = 1 /\ input[1].t = "Keyword"

\* C15: parse fails at no token other than a bracket, and every token it has
\* passed that is no bracket is one leaf of the node that was current, in
\* token order; this for each keyword, `macro` too, and for names, numbers and
\* strings; a keyword alone is parsed to a Program of that one leaf.
C15_EveryTokenAppendsLeaf ==
    /\ (pstatus = "panic" /\ i < Len(input)) => input[i + 1] = Ket
    /\ pstatus = "loop" =>
          UnparseOpen(Append(expr_stack, cur_node)) = SubSeq(input, 1, i)
    /\ (BareKeyword /\ pstatus \in {"ok", "panic"}) =>
          (pstatus = "ok" /\ cur_node = Program(<<LeafOf(input[1])>>))

\* the same for every token but the keyword `macro`: this much parse does
C15_ExceptMacro ==
    /\ (pstatus = "panic" /\ i < Len(input)) => input[i + 1] \in {Ket, Keyword("macro")}
    /\ pstatus = "loop" =>
          UnparseOpen(Append(expr_stack, cur_node)) = SubSeq(input, 1, i)
    /\ (BareKeyword /\ pstatus \in {"ok", "panic"} /\ input[1] # Keyword("macro")) =>
          (pstatus = "ok" /\ cur_node = Program(<<LeafOf(input[1])>>))

----------------------------------------------------------------------------
(* Folding with the NoopFolder (claim C16) *)

\* C16: fold with the NoopFolder completes on every tree and gives the tree
\* back: entry by entry the folded node is the entry, whatever forms (the
\* empty form too), identifier-headed forms, keywords and literals it holds.
C16_NoopIdentity ==
    /\ xstatus # "panic"
    /\ \A k \in 1..Len(folded) : folded[k].n = tree.ns[k]
    /\ xstatus = "ok" => Program([k \in 1..Len(folded) |-> folded[k].n]) = tree

\* the number of empty forms in a tree
RECURSIVE EmptyForms(_), EmptyFormsIn(_)
EmptyForms(node) ==
    IF node.tag \in {"Program", "S"}
    THEN (IF node.tag = "S" /\ node.ns = <<>> THEN 1 ELSE 0) + EmptyFormsIn(node.ns)
    ELSE 0
EmptyFormsIn(ns) ==
    IF ns = <<>> THEN 0 ELSE EmptyForms(Head(ns)) + EmptyFormsIn(Tail(ns))

\* the same for trees with no empty form and no `macro` keyword: this much
\* the fold does
C16_WithoutEmptyForms ==
    (CountTag(tree, "Macro") = 0 /\ EmptyForms(tree) = 0) =>
        /\ xstatus # "panic"
        /\ \A k \in 1..Len(folded) : folded[k].n = tree.ns[k]
        /\ xstatus = "ok" => Program([k \in 1..Len(folded) |-> folded[k].n]) = tree

\* `(f (m 1)) x (+ (m 1) 2)` has come back as it went in
C16_IdentityReached ==
    /\ xstatus = "ok"
    /\ tree = Program(<<S(<<F, S(<<M, LitNum(1)>>)>>), X,
                        S(<<Plus, S(<<M, LitNum(1)>>), LitNum(2)>>)>>)
    /\ Len(folded) = 3

----------------------------------------------------------------------------
(* The head-reduction arm of run_node (claim C17) *)

\* an activation has dispatched again the very form it was given, under the
\* ribs it was given: what follows repeats what came before
SameFormAgain ==
    \E j \in 1..(Len(stack) - 1) :
        /\ stack[j].pc = "retry"
        /\ stack[j + 1].node = stack[j].node
        /\ stack[j + 1].entry = stack[j].entry

\* C17: the evaluation of a form whose head is, or evaluates to, a number, a
\* string or the empty form ends in a failure after finitely many
\* re-dispatches: no form is dispatched again as it was given, and run_node
\* panics in the end.
C17_HeadReduceTerminates ==
    /\ [](~SameFormAgain)
    /\ (prog \in ValueHeaded) ~> (mode = "failed")

\* the evaluation of every other form of the model does end, with a value
\* or a failure, and dispatches no form again as it was given
C17_OthersTerminate ==
    /\ [](prog \notin ValueHeaded => ~SameFormAgain)
    /\ (prog \notin ValueHeaded) ~> Terminal

\* what `(42 1)` comes to: the activations of the one form pile up to the
\* end of the stack, and no panic is raised
C17_StackExhausted ==
    /\ prog = App(LitNum(42), <<LitNum(1)>>)
    /\ mode = "overflow"
    /\ Len(stack) = MaxStack
    /\ \A j \in Live : stack[j].node = prog
    /\ \A j \in 1..(MaxStack - 1) : stack[j].pc = "retry"

====
